---------------------------- MODULE Spec2Model ----------------------------
(***************************************************************************)
(* The OpenAuto logger migration scripts, their repair scripts and main    *)
(* as state machines.                                                      *)
(*                                                                         *)
(* A source file is a pair (file_path, content); texts are TLA+ strings,   *)
(* read character by character.  The scripts are regular-expression        *)
(* substitutions: the regular expressions are translated item by item and  *)
(* matched by a backtracking matcher with Python's re semantics (leftmost  *)
(* match, greedy quantifiers, non-overlapping substitution).               *)
(***************************************************************************)
EXTENDS Integers, Sequences, FiniteSets, TLC

VARIABLES
    script,            \* which script runs: "migrate_logger" | "migrate_to_modern_logger" | a repair script
    dry_run,           \* args.dry_run
    file_path,         \* path of the file being processed
    content,           \* text of the file on disk
    original_content,  \* text the last pass read (process_file: original_content = content)
    searched,          \* text the last migration ran its pattern on (after the include replacement)
    sites,             \* matches of the last migration pass: [first, last, severity, argument, replacement]
    warnings,          \* severities printed as "Warning: Unknown severity" by the last pass
    returned,          \* return value of the last pass
    written,           \* whether the last pass wrote the file
    passes,            \* how many times the script has run on the file
    log_context,       \* determine_category: the message text it is given
    category,          \* determine_category: what it returned
    files,             \* main: cpp_files with their texts, [path, content]
    verbose,           \* main: args.verbose
    phase,             \* main: "dry" (the --dry-run run), "real" (the run without), "done"
    index,             \* main: the file the loop is at
    migrated_count,    \* main: migrated_count of the run in progress
    would_migrate,     \* main: [files, count] the --dry-run run reported
    migrated           \* main: [files, count] the run without --dry-run reported

fileVars == <<script, dry_run, file_path, content, original_content, searched, sites,
              warnings, returned, written, passes>>
categoryVars == <<log_context, category>>
mainVars == <<files, verbose, phase, index, migrated_count, would_migrate, migrated>>
vars == <<fileVars, categoryVars, mainVars>>

-----------------------------------------------------------------------------
(* Bounds *)

\* most fragments a file is made of
MaxFrags == 2
\* most fragments a path is made of
MaxPathFrags == 2
\* most calls in a file given to a repair script
MaxCalls == 1
\* most files main is run on
MaxFiles == 2

-----------------------------------------------------------------------------
(* Python str helpers *)

CharAt(s, i) == SubSeq(s, i, i)

Min2(a, b) == IF a <= b THEN a ELSE b
Min(S) == CHOOSE x \in S : \A y \in S : x <= y

UPPER == "ABCDEFGHIJKLMNOPQRSTUVWXYZ"
LOWERS == "abcdefghijklmnopqrstuvwxyz"
DIGITS == "0123456789"

Chars(s) == {CharAt(s, i) : i \in 1..Len(s)}

\* \w of re (ASCII part) and \s of re
WordChars == Chars(UPPER) \cup Chars(LOWERS) \cup Chars(DIGITS) \cup {"_"}
SpaceChars == {" ", "\n", "\t", "\r"}
UpperChars == Chars(UPPER)

LowerChar(c) ==
    IF c \in UpperChars
    THEN CharAt(LOWERS, CHOOSE i \in 1..Len(UPPER) : CharAt(UPPER, i) = c)
    ELSE c

\* str.lower(), by halves
RECURSIVE lower(_)
lower(s) ==
    IF Len(s) = 0 THEN ""
    ELSE IF Len(s) = 1 THEN LowerChar(s)
    ELSE LET h == Len(s) \div 2
         IN  lower(SubSeq(s, 1, h)) \o lower(SubSeq(s, h + 1, Len(s)))

startswith(s, p) == Len(s) >= Len(p) /\ SubSeq(s, 1, Len(p)) = p
endswith(s, p) == Len(s) >= Len(p) /\ SubSeq(s, Len(s) - Len(p) + 1, Len(s)) = p

\* sub in s
Contains(s, sub) ==
    \E i \in 1..(Len(s) - Len(sub) + 1) : SubSeq(s, i, i + Len(sub) - 1) = sub

\* s.count(c) for a one-character c
count(s, c) == Cardinality({i \in 1..Len(s) : CharAt(s, i) = c})

RECURSIVE lstrip(_)
lstrip(s) == IF s # "" /\ Head(s) \in SpaceChars THEN lstrip(Tail(s)) ELSE s

RECURSIVE rstrip(_)
rstrip(s) ==
    IF s # "" /\ CharAt(s, Len(s)) \in SpaceChars
    THEN rstrip(SubSeq(s, 1, Len(s) - 1))
    ELSE s

strip(s) == rstrip(lstrip(s))

\* the positions at which sub occurs in s
Occurrences(s, sub) ==
    {i \in 1..(Len(s) - Len(sub) + 1) : SubSeq(s, i, i + Len(sub) - 1) = sub}

\* s.replace(old, new): every non-overlapping occurrence, left to right
RECURSIVE replaceFrom(_, _, _, _, _)
replaceFrom(s, old, new, occ, from) ==
    LET left == {i \in occ : i >= from}
    IN  IF left = {} THEN SubSeq(s, from, Len(s))
        ELSE LET at == Min(left)
             IN  SubSeq(s, from, at - 1) \o new
                 \o replaceFrom(s, old, new, occ, at + Len(old))

replace(s, old, new) == replaceFrom(s, old, new, Occurrences(s, old), 1)

-----------------------------------------------------------------------------
(* Regular expressions: a pattern is a sequence of parts, a part is a      *)
(* sequence of items and the number of the group it is (0: none); an item  *)
(* is a literal string, or a character class with a repetition.            *)

Lit(s) == <<[lit |-> s, set |-> {}, neg |-> FALSE, min |-> 1, many |-> FALSE]>>
Plus(S) == [lit |-> "", set |-> S, neg |-> FALSE, min |-> 1, many |-> TRUE]
Star(S) == [lit |-> "", set |-> S, neg |-> FALSE, min |-> 0, many |-> TRUE]
NotPlus(S) == [lit |-> "", set |-> S, neg |-> TRUE, min |-> 1, many |-> TRUE]
NotStar(S) == [lit |-> "", set |-> S, neg |-> TRUE, min |-> 0, many |-> TRUE]

Part(items, g) == [items |-> items, group |-> g]

RECURSIVE Items(_)
Items(parts) ==
    IF parts = <<>> THEN <<>> ELSE Head(parts).items \o Items(Tail(parts))

InClass(c, it) == (c \in it.set) # it.neg

\* the first position in lo..hi whose character is not of the item's class,
\* hi + 1 when there is none; by halves
RECURSIVE FirstStop(_, _, _, _)
FirstStop(it, text, lo, hi) ==
    IF lo > hi THEN hi + 1
    ELSE IF lo = hi THEN (IF InClass(CharAt(text, lo), it) THEN hi + 1 ELSE lo)
    ELSE LET mid == (lo + hi) \div 2
             left == FirstStop(it, text, lo, mid)
         IN  IF left <= mid THEN left ELSE FirstStop(it, text, mid + 1, hi)

\* the longest run of characters of the item's class from pos
MaxRun(it, text, pos) ==
    FirstStop(it, text, pos, IF it.many THEN Len(text) ELSE Min2(pos, Len(text))) - pos

NoMatch == [ok |-> FALSE, ends |-> <<>>]

\* the positions after the items matched so far (p) and after the rest (r)
Follow(p, r) == IF r.ok THEN [ok |-> TRUE, ends |-> <<p>> \o r.ends] ELSE NoMatch

\* items i.. of the pattern against text from pos: the position after each
\* item, the first in backtracking order (greedy: the longest run first)
RECURSIVE MatchFrom(_, _, _, _)
RECURSIVE LongestRun(_, _, _, _, _, _)
\* item i takes k characters, then the rest of the pattern
AfterRun(items, i, text, pos, k) ==
    IF k < items[i].min THEN NoMatch
    ELSE Follow(pos + k, MatchFrom(items, i + 1, text, pos + k))

\* how many of the run characters available item i takes
Take(items, i, text, pos, run) ==
    IF run <= items[i].min THEN run
    ELSE LongestRun(items, i, text, pos, items[i].min, run)

MatchFrom(items, i, text, pos) ==
    IF i > Len(items) THEN [ok |-> TRUE, ends |-> <<>>]
    ELSE IF items[i].lit # ""
    THEN IF /\ pos + Len(items[i].lit) - 1 <= Len(text)
            /\ SubSeq(text, pos, pos + Len(items[i].lit) - 1) = items[i].lit
         THEN Follow(pos + Len(items[i].lit),
                     MatchFrom(items, i + 1, text, pos + Len(items[i].lit)))
         ELSE NoMatch
    ELSE AfterRun(items, i, text, pos,
                  Take(items, i, text, pos, MaxRun(items[i], text, pos)))

\* the largest k in lo..hi for which the rest of the pattern matches after k
\* characters of item i, lo - 1 when there is none; by halves, the longer first
OrShorter(items, i, text, pos, lo, mid, right) ==
    IF right > mid THEN right
    ELSE LongestRun(items, i, text, pos, lo, mid)

LongestRun(items, i, text, pos, lo, hi) ==
    IF lo > hi THEN lo - 1
    ELSE IF lo = hi
         THEN IF MatchFrom(items, i + 1, text, pos + lo).ok THEN lo ELSE lo - 1
    ELSE OrShorter(items, i, text, pos, lo, (lo + hi) \div 2,
                   LongestRun(items, i, text, pos, (lo + hi) \div 2 + 1, hi))

\* whether a match can start at position p: its first item fits there
StartsAt(it, text, p) ==
    IF it.lit # ""
    THEN p + Len(it.lit) - 1 <= Len(text) /\ SubSeq(text, p, p + Len(it.lit) - 1) = it.lit
    ELSE it.min = 0 \/ InClass(CharAt(text, p), it)

\* the first of the positions ps at which the pattern matches, 0 when none
RECURSIVE FirstMatch(_, _, _)
FirstMatch(items, text, ps) ==
    IF ps = {} THEN 0
    ELSE LET p == Min(ps)
         IN  IF MatchFrom(items, 1, text, p).ok THEN p
             ELSE FirstMatch(items, text, ps \ {p})

\* the match that starts at position at, none when at = 0
MatchAt(items, text, at) ==
    IF at = 0 THEN [ok |-> FALSE, start |-> 0, ends |-> <<>>]
    ELSE [ok |-> TRUE, start |-> at, ends |-> MatchFrom(items, 1, text, at).ends]

\* re.search from position from: the leftmost match
Search(items, text, from) ==
    MatchAt(items, text,
            FirstMatch(items, text,
                       {p \in from..Len(text) : StartsAt(items[1], text, p)}))

MatchEnd(m) == m.ends[Len(m.ends)] - 1

\* re.finditer: the non-overlapping matches, left to right
RECURSIVE FindAll(_, _, _)
\* the match m and the matches after it
AndAfter(items, text, m) ==
    IF ~m.ok THEN <<>>
    ELSE <<m>> \o FindAll(items, text, m.ends[Len(m.ends)])

FindAll(items, text, from) == AndAfter(items, text, Search(items, text, from))

\* number of items before part p
RECURSIVE ItemsBefore(_, _)
ItemsBefore(parts, p) ==
    IF p <= 1 THEN 0 ELSE Len(parts[p - 1].items) + ItemsBefore(parts, p - 1)

\* match.group(g); group 0 is the whole match
Group(parts, text, m, g) ==
    IF g = 0 THEN SubSeq(text, m.start, MatchEnd(m))
    ELSE LET p == CHOOSE q \in 1..Len(parts) : parts[q].group = g
             a == ItemsBefore(parts, p)
             b == a + Len(parts[p].items)
         IN  SubSeq(text, IF a = 0 THEN m.start ELSE m.ends[a], m.ends[b] - 1)

\* text with the matches ms (of FindAll) replaced by repls, from position from
RECURSIVE Splice(_, _, _, _, _)
Splice(text, ms, repls, k, from) ==
    IF k > Len(ms) THEN SubSeq(text, from, Len(text))
    ELSE SubSeq(text, from, ms[k].start - 1) \o repls[k]
         \o Splice(text, ms, repls, k + 1, MatchEnd(ms[k]) + 1)

\* a replacement template is a sequence of group references (\1) and texts
Ref(g) == [group |-> g, text |-> ""]
Txt(s) == [group |-> 0, text |-> s]

\* match.expand(repl): the template with the groups of the match m filled in
RECURSIVE Expand(_, _, _, _, _)
Expand(parts, text, m, repl, k) ==
    IF k > Len(repl) THEN ""
    ELSE (IF repl[k].group = 0 THEN repl[k].text
          ELSE Group(parts, text, m, repl[k].group))
         \o Expand(parts, text, m, repl, k + 1)

SpliceAll(parts, text, ms, repl) ==
    Splice(text, ms, [k \in 1..Len(ms) |-> Expand(parts, text, ms[k], repl, 1)], 1, 1)

\* re.sub(pattern, repl, text)
ReSub(parts, text, repl) ==
    SpliceAll(parts, text, FindAll(Items(parts), text, 1), repl)

-----------------------------------------------------------------------------
(* migrate_logger.py and scripts/migrate_to_modern_logger.py *)

Scripts == {"migrate_logger", "migrate_to_modern_logger"}

SEVERITY_MAPPING(s) ==
    IF s = "migrate_logger"
    THEN [trace |-> "LOG_TRACE", debug |-> "LOG_DEBUG", info |-> "LOG_INFO",
          warning |-> "LOG_WARN", error |-> "LOG_ERROR", fatal |-> "LOG_FATAL"]
    ELSE [trace |-> "OPENAUTO_LOG_TRACE", debug |-> "OPENAUTO_LOG_DEBUG",
          info |-> "OPENAUTO_LOG_INFO", warning |-> "OPENAUTO_LOG_WARN",
          error |-> "OPENAUTO_LOG_ERROR", fatal |-> "OPENAUTO_LOG_FATAL"]

\* the dict in insertion order, which is the order .items() iterates in
CATEGORY_MAPPING(s) ==
    << <<"btservice", "BLUETOOTH">>, <<"Service", "ANDROID_AUTO">>,
       <<"UI", "UI">>, <<"Camera", "CAMERA">>, <<"Video", "VIDEO">>,
       <<"Audio", "AUDIO">>, <<"Media", "AUDIO">>, <<"Sensor", "SYSTEM">>,
       <<"Navigation", "ANDROID_AUTO">>, <<"Radio", "AUDIO">>,
       <<"Phone", "ANDROID_AUTO">>, <<"Wifi", "NETWORK">>,
       <<"Network", "NETWORK">>, <<"Connection", "NETWORK">>,
       <<"Configuration", "CONFIG">>, <<"Factory", "SYSTEM">> >>
    \o (IF s = "migrate_logger" THEN <<>>
        ELSE << <<"Input", "INPUT">>, <<"Projection", "PROJECTION">>,
                <<"Settings", "SETTINGS">> >>)

\* the category of the first of the entries hits of the table, "" when none
CategoryAt(table, hits) == IF hits = {} THEN "" ELSE table[Min(hits)][2]

\* for pattern, category in CATEGORY_MAPPING.items():
\*     if pattern.lower() in str: return category
FirstHit(table, str) ==
    CategoryAt(table, {k \in 1..Len(table) : Contains(str, lower(table[k][1]))})

\* a unless the loop it stands for returned nothing, then b
OrElse(a, b) == IF a # "" THEN a ELSE b

determine_category_context_first(s, path, context) ==
    OrElse(FirstHit(CATEGORY_MAPPING(s), lower(context)),
           OrElse(FirstHit(CATEGORY_MAPPING(s), lower(path)), "GENERAL"))

determine_category(s, path, context) ==
    OrElse(FirstHit(CATEGORY_MAPPING(s), lower(path)),
           OrElse(FirstHit(CATEGORY_MAPPING(s), lower(context)), "GENERAL"))

\* r'^\[[\w:]+\]\s*'
TagPattern == <<Part(Lit("[") \o <<Plus(WordChars \cup {":"})>> \o Lit("]")
                     \o <<Star(SpaceChars)>>, 0)>>

\* re.sub(r'^\[[\w:]+\]\s*', '', message): m is the match at the start
WithoutTag(message, m) ==
    IF m.ok THEN SubSeq(message, m.ends[Len(m.ends)], Len(message)) ELSE message

\* if message.startswith('"') and message.endswith('"'): message = message[1:-1]
Unquoted(message) ==
    IF startswith(message, "\"") /\ endswith(message, "\"")
    THEN SubSeq(message, 2, Len(message) - 1)
    ELSE message

\* migrate_logger.py only: scripts/migrate_to_modern_logger.py never calls its own
extract_message_from_stream(stream_content) ==
    strip(Unquoted(WithoutTag(stream_content,
                              MatchFrom(Items(TagPattern), 1, stream_content, 1))))

\* r'OPENAUTO_LOG\((\w+)\)\s*<<\s*([^;]+);' and
\* r'OPENAUTO_LOG\s*\(\s*(\w+)\s*\)\s*<<([^;]+);'
pattern(s) ==
    IF s = "migrate_logger"
    THEN << Part(Lit("OPENAUTO_LOG("), 0), Part(<<Plus(WordChars)>>, 1),
            Part(Lit(")") \o <<Star(SpaceChars)>> \o Lit("<<") \o <<Star(SpaceChars)>>, 0),
            Part(<<NotPlus({";"})>>, 2), Part(Lit(";"), 0) >>
    ELSE << Part(Lit("OPENAUTO_LOG") \o <<Star(SpaceChars)>> \o Lit("(")
                 \o <<Star(SpaceChars)>>, 0),
            Part(<<Plus(WordChars)>>, 1),
            Part(<<Star(SpaceChars)>> \o Lit(")") \o <<Star(SpaceChars)>> \o Lit("<<"), 0),
            Part(<<NotPlus({";"})>>, 2), Part(Lit(";"), 0) >>

\* scripts/migrate_to_modern_logger.py: the message argument of the new call
stream_message(stream_content) ==
    IF startswith(stream_content, "\"") /\ endswith(stream_content, "\"")
    THEN stream_content
    ELSE IF Contains(stream_content, "<<")
    THEN "(std::stringstream() << " \o stream_content \o ").str()"
    ELSE "(" \o stream_content \o ").str()"

\* the new call for a call of a mapped severity
new_log_call(s, severity, stream_content, path) ==
    SEVERITY_MAPPING(s)[severity] \o "("
    \o determine_category(s, path, stream_content)
    \o (IF s = "migrate_logger"
        THEN ", \"" \o extract_message_from_stream(stream_content) \o "\");"
        ELSE ", " \o stream_message(stream_content) \o ")")

\* match.group(g), stripped by scripts/migrate_to_modern_logger.py
group_of(s, text, match, g) ==
    IF s = "migrate_logger" THEN Group(pattern(s), text, match, g)
    ELSE strip(Group(pattern(s), text, match, g))

\* the text that replaces the match (out), and the severity it prints a
\* warning about, if any (warn); unchanged is the text an unknown severity
\* is answered with
converted(s, path, severity, stream_content, unchanged) ==
    IF severity \notin DOMAIN SEVERITY_MAPPING(s)
    THEN [out |-> unchanged, warn |-> <<severity>>]
    ELSE [out |-> new_log_call(s, severity, stream_content, path), warn |-> <<>>]

convert_log_call_group2(s, text, match, path) ==
    converted(s, path, group_of(s, text, match, 1), group_of(s, text, match, 2),
              Group(pattern(s), text, match, 2))

convert_log_call(s, text, match, path) ==
    converted(s, path, group_of(s, text, match, 1), group_of(s, text, match, 2),
              Group(pattern(s), text, match, 0))

OLD_INCLUDE == "#include <f1x/openauto/Common/Log.hpp>"
NEW_INCLUDE(s) ==
    IF s = "migrate_logger" THEN "#include <modern/Logger.hpp>"
    ELSE "#include <openauto/Common/ModernLogger.hpp>"

replace_include_first(s, text) ==
    LET occ == Occurrences(text, OLD_INCLUDE)
    IN  IF occ = {} THEN text
        ELSE SubSeq(text, 1, Min(occ) - 1) \o NEW_INCLUDE(s)
             \o SubSeq(text, Min(occ) + Len(OLD_INCLUDE), Len(text))

\* content.replace(old include, new include)
replace_include(s, text) == replace(text, OLD_INCLUDE, NEW_INCLUDE(s))

\* re.sub(pattern, replace_func, content): the calls of replace_func in order,
\* from match k on; the text from position from on, the warnings printed and
\* the call sites
RECURSIVE sub_calls(_, _, _, _, _, _)
\* match m replaced by c, before the rest
Joined(s, text, from, m, c, rest) ==
    [out |-> SubSeq(text, from, m.start - 1) \o c.out \o rest.out,
     warnings |-> c.warn \o rest.warnings,
     sites |-> <<[first |-> m.start, last |-> MatchEnd(m),
                  severity |-> Group(pattern(s), text, m, 1),
                  argument |-> Group(pattern(s), text, m, 2),
                  replacement |-> c.out]>> \o rest.sites]

sub_calls(s, path, text, ms, k, from) ==
    IF k > Len(ms) THEN [out |-> SubSeq(text, from, Len(text)),
                         warnings |-> <<>>, sites |-> <<>>]
    ELSE Joined(s, text, from, ms[k], convert_log_call(s, text, ms[k], path),
                sub_calls(s, path, text, ms, k + 1, MatchEnd(ms[k]) + 1))

\* if OLD_INCLUDE in content: content = content.replace(...)
include_replaced(s, text) ==
    IF Contains(text, OLD_INCLUDE) THEN replace_include(s, text) ELSE text

\* if modified [and not dry_run]: write; return modified
write_back(text, dry, replaced, modified, subbed) ==
    [content |-> IF modified /\ ~dry THEN subbed.out ELSE text,
     written |-> modified /\ ~dry,
     returned |-> modified,
     searched |-> replaced,
     sites |-> subbed.sites,
     warnings |-> subbed.warnings]

\* content = re.sub(pattern, replace_func, content); replace_func sets
\* modified for every match
sub_and_write(s, path, text, dry, replaced, ms) ==
    write_back(text, dry, replaced, Contains(text, OLD_INCLUDE) \/ ms # <<>>,
               sub_calls(s, path, replaced, ms, 1, 1))

\* process_file of script s on a readable, writable file; dry is always FALSE
\* for migrate_logger.py, whose process_file has no such parameter and whose
\* main does not call it on a dry run
process_file(s, path, text, dry) ==
    sub_and_write(s, path, text, dry, include_replaced(s, text),
                  FindAll(Items(pattern(s)), include_replaced(s, text), 1))

-----------------------------------------------------------------------------
(* The files the migration is run on *)

Paths == {"src/main.cpp", "src/btservice/AudioInput.cpp"}

\* the pieces the files are made of: whole calls (a literal, an unknown
\* severity, a << chain, a literal that reads like a call, a literal with a
\* ';' in it), a statement whose string literal reads like a call, a call
\* that lacks its argument and terminator, an empty statement, the legacy
\* include line
Fragments ==
    { "OPENAUTO_LOG(info) << \"x\";",
      "OPENAUTO_LOG(info) << \"a; b\";",
      "puts(\"OPENAUTO_LOG(debug) << x;\");",
      "OPENAUTO_LOG(critical) << \"x\";",
      "OPENAUTO_LOG(warning) << \"Video \" << idx;",
      "OPENAUTO_LOG(info) << \"see OPENAUTO_LOG(debug) << x\";",
      "OPENAUTO_LOG(error) << ",
      ";",
      "#include <f1x/openauto/Common/Log.hpp>\n" }

RECURSIVE TextsOf(_, _)
TextsOf(frags, n) ==
    IF n = 0 THEN {""}
    ELSE LET shorter == TextsOf(frags, n - 1)
         IN  shorter \cup {t \o f : t \in shorter, f \in frags}

\* nothing was asked of determine_category
NoCategory == log_context = "" /\ category = ""

NoReport == [files |-> <<>>, count |-> 0]

\* main is not running
NoMain ==
    /\ files = <<>>
    /\ verbose = FALSE
    /\ phase = "done"
    /\ index = 0
    /\ migrated_count = 0
    /\ would_migrate = NoReport
    /\ migrated = NoReport

Init ==
    /\ script \in Scripts
    /\ dry_run \in (IF script = "migrate_logger" THEN {FALSE} ELSE BOOLEAN)
    /\ file_path \in Paths
    /\ content \in TextsOf(Fragments, MaxFrags)
    /\ original_content = content
    /\ searched = content
    /\ sites = <<>>
    /\ warnings = <<>>
    /\ returned = FALSE
    /\ written = FALSE
    /\ passes = 0
    /\ NoCategory
    /\ NoMain

\* process_file(file_path) / process_file(file_path, dry_run)
Migrate ==
    /\ script \in Scripts
    /\ \E r \in {process_file(script, file_path, content, dry_run)} :
           /\ content' = r.content
           /\ original_content' = content
           /\ searched' = r.searched
           /\ sites' = r.sites
           /\ warnings' = r.warnings
           /\ returned' = r.returned
           /\ written' = r.written
    /\ UNCHANGED <<script, dry_run, file_path, categoryVars, mainVars>>

\* the script is run on the file
ProcessFile ==
    /\ passes = 0
    /\ Migrate
    /\ passes' = 1

\* the script is run again on what the first run left
ProcessFileAgain ==
    /\ passes = 1
    /\ Migrate
    /\ passes' = 2

Next == ProcessFile \/ ProcessFileAgain

Spec == Init /\ [][Next]_vars

-----------------------------------------------------------------------------
(* determine_category on its own (SpecCategory) *)

\* the pieces the paths are made of
PathFrags == {"src/", "btservice/", "Audio", "Service", "ui/", "main", "VIDEO"}

\* the message texts
Contexts == {"", "x", "Video frame ", "audio focus lost", "[Wifi] up",
             "Settings saved"}

InitCategory ==
    /\ script \in Scripts
    /\ dry_run = FALSE
    /\ file_path \in TextsOf(PathFrags, MaxPathFrags)
    /\ content = ""
    /\ original_content = ""
    /\ searched = ""
    /\ sites = <<>>
    /\ warnings = <<>>
    /\ returned = FALSE
    /\ written = FALSE
    /\ passes = 0
    /\ log_context \in Contexts
    /\ category = ""
    /\ NoMain

\* category = determine_category(file_path, stream_content)
DetermineCategory ==
    /\ passes = 0
    /\ category' = determine_category(script, file_path, log_context)
    /\ passes' = 1
    /\ UNCHANGED <<script, dry_run, file_path, content, original_content, searched,
                   sites, warnings, returned, written, log_context, mainVars>>

NextCategory == DetermineCategory

SpecCategory == InitCategory /\ [][NextCategory]_vars

-----------------------------------------------------------------------------
(* The repair scripts: fix_quotes.py, scripts/fix_logging_syntax.py and    *)
(* scripts/fix_app_logging.py                                              *)

RepairScripts == {"fix_quotes", "fix_logging_syntax", "fix_app_logging"}

\* (LOG_[A-Z]+\([^,]+,\s*)
quotes_prefix ==
    Part(Lit("LOG_") \o <<Plus(UpperChars)>> \o Lit("(") \o <<NotPlus({","})>>
         \o Lit(",") \o <<Star(SpaceChars)>>, 1)

\* r'(LOG_[A-Z]+\([^,]+,\s*)""([^"]+)"' -> r'\1"\2"'
quotes_pattern1 ==
    << quotes_prefix, Part(Lit("\"\""), 0), Part(<<NotPlus({"\""})>>, 2),
       Part(Lit("\""), 0) >>
quotes_repl1 == <<Ref(1), Txt("\""), Ref(2), Txt("\"")>>

\* r'(LOG_[A-Z]+\([^,]+,\s*)""([^"]+)([^)]+)"\);' -> r'\1"\2\3);'
quotes_pattern2 ==
    << quotes_prefix, Part(Lit("\"\""), 0), Part(<<NotPlus({"\""})>>, 2),
       Part(<<NotPlus({")"})>>, 3), Part(Lit("\");"), 0) >>
quotes_repl2 == <<Ref(1), Txt("\""), Ref(2), Ref(3), Txt(");")>>

\* r'"\);";' -> r'");'
quotes_pattern3 == << Part(Lit("\");\";"), 0) >>
quotes_repl3 == <<Txt("\");")>>

\* r'(LOG_[A-Z]+\([^,]+,\s*)""([^"]+<<[^)]*)\);"' -> r'\1"\2);'
quotes_pattern4 ==
    << quotes_prefix, Part(Lit("\"\""), 0),
       Part(<<NotPlus({"\""})>> \o Lit("<<") \o <<NotStar({")"})>>, 2),
       Part(Lit(");\""), 0) >>
quotes_repl4 == <<Ref(1), Txt("\""), Ref(2), Txt(");")>>

\* what a repair script that read original leaves: it writes when the text
\* changed, and returns whether it did
Fixed(original, fixed) ==
    [content |-> fixed, written |-> fixed # original, returned |-> fixed # original]

\* fix_quotes.py: the four substitutions in order
fix_logger_quotes(text) ==
    Fixed(text,
          ReSub(quotes_pattern4,
                ReSub(quotes_pattern3,
                      ReSub(quotes_pattern2,
                            ReSub(quotes_pattern1, text, quotes_repl1),
                            quotes_repl2),
                      quotes_repl3),
                quotes_repl4))

\* r'(OPENAUTO_LOG_\w+\([^,]+,\s*\(std::stringstream\(\)[^;]*);(\s*<<[^)]*\)\.str\(\)\))'
syntax_pattern ==
    << Part(Lit("OPENAUTO_LOG_") \o <<Plus(WordChars)>> \o Lit("(")
            \o <<NotPlus({","})>> \o Lit(",") \o <<Star(SpaceChars)>>
            \o Lit("(std::stringstream()") \o <<NotStar({";"})>>, 1),
       Part(Lit(";"), 0),
       Part(<<Star(SpaceChars)>> \o Lit("<<") \o <<NotStar({")"})>>
            \o Lit(").str())"), 2) >>

\* return first_part + second_part + ';'
fix_match == <<Ref(1), Ref(2), Txt(";")>>

\* scripts/fix_logging_syntax.py
fix_logging_syntax(text) == Fixed(text, ReSub(syntax_pattern, text, fix_match))

\* r'OPENAUTO_LOG_ERROR\(([^,]+),\s*\("\(([^)]+)\)\.str\(\)"\);'
\*   -> r'OPENAUTO_LOG_ERROR(\1, "\2");'
app_pattern ==
    << Part(Lit("OPENAUTO_LOG_ERROR("), 0), Part(<<NotPlus({","})>>, 1),
       Part(Lit(",") \o <<Star(SpaceChars)>> \o Lit("(\"("), 0),
       Part(<<NotPlus({")"})>>, 2), Part(Lit(").str()\");"), 0) >>
app_replacement == <<Txt("OPENAUTO_LOG_ERROR("), Ref(1), Txt(", \""), Ref(2), Txt("\");")>>

\* r'OPENAUTO_LOG_ERROR\(([^,]+),\s*\(\[([^\]]+)\]\)\.str\(\)\)";'
\*   -> r'OPENAUTO_LOG_ERROR(\1, "[\2]");'
app_pattern2 ==
    << Part(Lit("OPENAUTO_LOG_ERROR("), 0), Part(<<NotPlus({","})>>, 1),
       Part(Lit(",") \o <<Star(SpaceChars)>> \o Lit("(["), 0),
       Part(<<NotPlus({"]"})>>, 2), Part(Lit("]).str())\";"), 0) >>
app_replacement2 == <<Txt("OPENAUTO_LOG_ERROR("), Ref(1), Txt(", \"["), Ref(2), Txt("]\");")>>

\* patterns_to_fix[0]: r'\("\[([^\]]+)\]\)\.str\(\)\)";' -> r';"[\1]";'
app_pattern3 ==
    << Part(Lit("(\"["), 0), Part(<<NotPlus({"]"})>>, 1),
       Part(Lit("]).str())\";"), 0) >>
app_replacement3 == <<Txt(";\"["), Ref(1), Txt("]\";")>>

\* patterns_to_fix[1]: r'\(([^)]+)\)\.str\(\)\)";' -> r'"\1";'
app_pattern4 ==
    << Part(Lit("("), 0), Part(<<NotPlus({")"})>>, 1),
       Part(Lit(").str())\";"), 0) >>
app_replacement4 == <<Txt("\""), Ref(1), Txt("\";")>>

\* scripts/fix_app_logging.py: the substitutions in order; the file is
\* always written
fix_app_logging(text) ==
    ReSub(app_pattern4,
          ReSub(app_pattern3,
                ReSub(app_pattern2,
                      ReSub(app_pattern, text, app_replacement),
                      app_replacement2),
                app_replacement3),
          app_replacement4)

-----------------------------------------------------------------------------
(* A script run on a file of calls of the new macros (SpecRepair) *)

Macros == {"LOG_ERROR", "LOG_INFO", "OPENAUTO_LOG_ERROR"}

\* message arguments in the target form: a quoted literal, << chains, a
\* chain that starts with the empty literal
CanonicalMessages ==
    { "\"clip\"",
      "\"x \" << idx",
      "\"[Decoder] frame \" << idx << \" dropped\"",
      "\"\" << x << \"abc\"" }

\* the texts of the doubled-quote artifacts
DoubledTexts == {"clip", "a b"}

\* message arguments the repair scripts are written for
MalformedMessages ==
    {"\"\"" \o body \o "\"\"" : body \in DoubledTexts}
    \cup { "\"\"Video \" << idx\"",
           "(std::stringstream() << \"a\"; << x).str()",
           "(\"(boom).str()\"" }

CallOf(macro, cat, message) == macro \o "(" \o cat \o ", " \o message \o ");"

CallsOf(messages) == {CallOf(m, "AUDIO", msg) \o "\n" : m \in Macros, msg \in messages}

InitRepair ==
    /\ script \in Scripts \cup RepairScripts
    /\ dry_run = FALSE
    /\ file_path = "src/autoapp/App.cpp"
    /\ content \in TextsOf(CallsOf(CanonicalMessages \cup MalformedMessages), MaxCalls)
    /\ original_content = content
    /\ searched = content
    /\ sites = <<>>
    /\ warnings = <<>>
    /\ returned = FALSE
    /\ written = FALSE
    /\ passes = 0
    /\ NoCategory
    /\ NoMain

\* fix_logger_quotes(filepath)
FixLoggerQuotes ==
    /\ script = "fix_quotes"
    /\ passes = 0
    /\ \E r \in {fix_logger_quotes(content)} :
           /\ content' = r.content
           /\ returned' = r.returned
           /\ written' = r.written
    /\ original_content' = content
    /\ passes' = 1
    /\ UNCHANGED <<script, dry_run, file_path, searched, sites, warnings,
                   categoryVars, mainVars>>

\* fix_logging_syntax(file_path)
FixLoggingSyntax ==
    /\ script = "fix_logging_syntax"
    /\ passes = 0
    /\ \E r \in {fix_logging_syntax(content)} :
           /\ content' = r.content
           /\ returned' = r.returned
           /\ written' = r.written
    /\ original_content' = content
    /\ passes' = 1
    /\ UNCHANGED <<script, dry_run, file_path, searched, sites, warnings,
                   categoryVars, mainVars>>

\* scripts/fix_app_logging.py, which has no function: the file is written
\* whether or not it changed
FixAppLogging ==
    /\ script = "fix_app_logging"
    /\ passes = 0
    /\ content' = fix_app_logging(content)
    /\ written' = TRUE
    /\ original_content' = content
    /\ passes' = 1
    /\ UNCHANGED <<script, dry_run, file_path, searched, sites, warnings, returned,
                   categoryVars, mainVars>>

NextRepair == ProcessFile \/ FixLoggerQuotes \/ FixLoggingSyntax \/ FixAppLogging

SpecRepair == InitRepair /\ [][NextRepair]_vars

-----------------------------------------------------------------------------
(* main of the migration scripts, run with --dry-run and then without on   *)
(* the same files (SpecMain)                                               *)

\* the texts of the files find_cpp_files returns
MainTexts ==
    { "int x;\n",
      "OPENAUTO_LOG(info) << \"x\";\n",
      "OPENAUTO_LOG(critical) << \"x\";\n",
      "OPENAUTO_LOG_ERROR(AUDIO, \"clip\");\n",
      "#include <f1x/openauto/Common/Log.hpp>\n" }

FilePath(i) == "src/File" \o CharAt(DIGITS, i + 1) \o ".cpp"

FilesOf(n) ==
    {[i \in 1..n |-> [path |-> FilePath(i), content |-> texts[i]]] :
        texts \in [1..n -> MainTexts]}

InitMain ==
    /\ script \in Scripts
    /\ dry_run = TRUE
    /\ file_path = ""
    /\ content = ""
    /\ original_content = ""
    /\ searched = ""
    /\ sites = <<>>
    /\ warnings = <<>>
    /\ returned = FALSE
    /\ written = FALSE
    /\ passes = 0
    /\ NoCategory
    /\ files \in UNION {FilesOf(n) : n \in 1..MaxFiles}
    /\ verbose \in BOOLEAN
    /\ phase = "dry"
    /\ index = 1
    /\ migrated_count = 0
    /\ would_migrate = NoReport
    /\ migrated = NoReport

\* 'OPENAUTO_LOG' in content or '#include <f1x/openauto/Common/Log.hpp>' in content
mentions_log(text) == Contains(text, "OPENAUTO_LOG") \/ Contains(text, OLD_INCLUDE)

\* what the file vars are after process_file (r) was called on file f
Processed(f, r) ==
    /\ file_path' = f.path
    /\ original_content' = f.content
    /\ content' = r.content
    /\ searched' = r.searched
    /\ sites' = r.sites
    /\ warnings' = r.warnings
    /\ returned' = r.returned
    /\ written' = r.written
    /\ passes' = passes + 1

NotProcessed ==
    UNCHANGED <<file_path, original_content, content, searched, sites, warnings,
                returned, written, passes>>

\* one turn of the loop of main with args.dry_run set
MainDryRunFile ==
    /\ phase = "dry" /\ index <= Len(files)
    /\ IF mentions_log(files[index].content)
       THEN /\ would_migrate' = [would_migrate EXCEPT
                                    !.files = Append(@, files[index].path)]
            /\ migrated_count' = migrated_count + 1
            /\ IF script = "migrate_to_modern_logger" /\ verbose
               THEN \E r \in {process_file(script, files[index].path,
                                           files[index].content, TRUE)} :
                        Processed(files[index], r)
               ELSE NotProcessed
       ELSE /\ UNCHANGED <<would_migrate, migrated_count>>
            /\ NotProcessed
    /\ index' = index + 1
    /\ UNCHANGED <<script, dry_run, categoryVars, files, verbose, phase, migrated>>

\* print(f"Would migrate {migrated_count} files"); then the same files are
\* given to main without --dry-run
MainDryRunEnd ==
    /\ phase = "dry" /\ index > Len(files)
    /\ would_migrate' = [would_migrate EXCEPT !.count = migrated_count]
    /\ phase' = "real"
    /\ dry_run' = FALSE
    /\ index' = 1
    /\ migrated_count' = 0
    /\ NotProcessed
    /\ UNCHANGED <<script, categoryVars, files, verbose, migrated>>

\* one turn of the loop of main without args.dry_run; process_file prints
\* "Migrated: <path>" when it writes
MainRealRunFile ==
    /\ phase = "real" /\ index <= Len(files)
    /\ IF script = "migrate_logger" \/ mentions_log(files[index].content)
       THEN \E r \in {process_file(script, files[index].path,
                                   files[index].content, FALSE)} :
                /\ Processed(files[index], r)
                /\ files' = [files EXCEPT ![index].content = r.content]
                /\ migrated' = IF r.written
                               THEN [migrated EXCEPT
                                        !.files = Append(@, files[index].path)]
                               ELSE migrated
                /\ migrated_count' = IF r.returned THEN migrated_count + 1
                                     ELSE migrated_count
       ELSE /\ NotProcessed
            /\ UNCHANGED <<files, migrated, migrated_count>>
    /\ index' = index + 1
    /\ UNCHANGED <<script, dry_run, categoryVars, verbose, phase, would_migrate>>

\* print(f"Migrated {migrated_count} files")
MainRealRunEnd ==
    /\ phase = "real" /\ index > Len(files)
    /\ migrated' = [migrated EXCEPT !.count = migrated_count]
    /\ phase' = "done"
    /\ NotProcessed
    /\ UNCHANGED <<script, dry_run, categoryVars, files, verbose, index,
                   migrated_count, would_migrate>>

NextMain == MainDryRunFile \/ MainDryRunEnd \/ MainRealRunFile \/ MainRealRunEnd

SpecMain == InitMain /\ [][NextMain]_vars

-----------------------------------------------------------------------------
(* Properties of a migration run (Spec) *)

\* the severity tokens the migration recognizes
RecognizedSeverities == {"trace", "debug", "info", "warning", "error", "fatal"}

Ran == passes >= 1

\* by how much the replacements before site k moved the text after them
RECURSIVE Shift(_, _)
Shift(ss, k) ==
    IF k <= 1 THEN 0
    ELSE Shift(ss, k - 1) + Len(ss[k - 1].replacement)
         - (ss[k - 1].last - ss[k - 1].first + 1)

\* where the replacement of site k lies in the text written
OutRange(ss, k) ==
    [first |-> ss[k].first + Shift(ss, k),
     last |-> ss[k].first + Shift(ss, k) + Len(ss[k].replacement) - 1]

\* the pieces of text outside the ranges rs (ascending, disjoint), in order
GapsOf(text, rs) ==
    [k \in 1..(Len(rs) + 1) |->
        SubSeq(text, IF k = 1 THEN 1 ELSE rs[k - 1].last + 1,
                     IF k = Len(rs) + 1 THEN Len(text) ELSE rs[k].first - 1)]

\* the ranges of the matches of the script's pattern in text
CallSites(s, text) ==
    LET ms == FindAll(Items(pattern(s)), text, 1)
    IN  [k \in 1..Len(ms) |-> [first |-> ms[k].start, last |-> MatchEnd(ms[k])]]

\* C1: running the migration on its own output yields that output again:
\* the second run of the script leaves the text of the first run as it is
C1_Idempotent ==
    (passes = 2 /\ ~dry_run) => content = original_content

\* C2: a matched call whose severity is not a recognized one is replaced by
\* its own text, so it stands unchanged in the text written, and the run
\* prints exactly one warning for it (the warnings are the unrecognized
\* severities of the matched calls, in order)
C2_UnknownSeverityPreserved ==
    Ran =>
        /\ \A k \in 1..Len(sites) :
               sites[k].severity \notin RecognizedSeverities =>
                   /\ sites[k].replacement = SubSeq(searched, sites[k].first, sites[k].last)
                   /\ written =>
                          SubSeq(content, OutRange(sites, k).first, OutRange(sites, k).last)
                              = SubSeq(searched, sites[k].first, sites[k].last)
        /\ warnings = SelectSeq([k \in 1..Len(sites) |-> sites[k].severity],
                                LAMBDA v : v \notin RecognizedSeverities)

\* an unrecognized call after a rewritten one, in a file that was written
C2_Witness ==
    /\ Ran /\ written
    /\ \E k \in 2..Len(sites) :
           /\ sites[k].severity = "critical"
           /\ sites[k - 1].severity = "info"

\* C3 as stated: every character of the text read that lies outside the
\* matched call sites stands unchanged, in the same order, in the text
\* written
C3_OnlyCallSitesChange ==
    (Ran /\ written) =>
        GapsOf(content, [k \in 1..Len(sites) |-> OutRange(sites, k)])
            = GapsOf(original_content, CallSites(script, original_content))

\* C3 amended: the text outside the matched call sites stands unchanged, in
\* the same order, in the text written, but for the legacy include
\* directives in it, each of which is replaced by the new include directive
C3_OnlyCallSitesAndIncludesChange ==
    (Ran /\ written) =>
        LET included == replace(original_content, OLD_INCLUDE, NEW_INCLUDE(script))
        IN  GapsOf(content, [k \in 1..Len(sites) |-> OutRange(sites, k)])
                = GapsOf(included, CallSites(script, included))

\* a file with a legacy include directive and a call that was rewritten
C3_Witness ==
    /\ Ran /\ written
    /\ Contains(original_content, OLD_INCLUDE)
    /\ \E k \in 1..Len(sites) :
           /\ sites[k].severity = "info"
           /\ sites[k].replacement # SubSeq(searched, sites[k].first, sites[k].last)

\* C5: the text that replaces a call of a recognized severity ends with one
\* ';' right after the closing parenthesis of the new call
C5_OneTerminator ==
    Ran =>
        \A k \in 1..Len(sites) :
            sites[k].severity \in RecognizedSeverities =>
                /\ endswith(sites[k].replacement, ");")
                /\ ~endswith(sites[k].replacement, ";;")

\* C6: the text that replaces a call of a recognized severity whose argument
\* is a << chain holds the chain as written, and as many quote characters
\* as the chain has
C6_ChainPreserved ==
    Ran =>
        \A k \in 1..Len(sites) :
            (/\ sites[k].severity \in RecognizedSeverities
             /\ Contains(sites[k].argument, "<<")) =>
                /\ Contains(sites[k].replacement, strip(sites[k].argument))
                /\ count(sites[k].replacement, "\"") = count(sites[k].argument, "\"")

\* C10: a real run on a file with no legacy include directive and no call
\* of a recognized severity writes nothing and returns False
C10_NoChangeNoWrite ==
    (/\ Ran /\ ~dry_run
     /\ ~Contains(original_content, OLD_INCLUDE)
     /\ \A k \in 1..Len(sites) : sites[k].severity \notin RecognizedSeverities) =>
        ~written /\ ~returned

-----------------------------------------------------------------------------
(* Properties of determine_category (SpecCategory) *)

\* whether pat occurs in str, the case of the letters ignored
OccursIn(pat, str) ==
    \E i \in 0..(Len(str) - Len(pat)) :
        \A j \in 1..Len(pat) :
            LowerChar(CharAt(str, i + j)) = LowerChar(CharAt(pat, j))

\* the entries of the table whose pattern occurs in str and before which no
\* entry's pattern does: the earliest one, if any
Earliest(table, str) ==
    {k \in 1..Len(table) :
        /\ OccursIn(table[k][1], str)
        /\ \A j \in 1..(k - 1) : ~OccursIn(table[j][1], str)}

\* C4: determine_category returns the category of the earliest table entry
\* whose pattern occurs, case ignored, in the path; only when none occurs in
\* the path, that of the earliest entry whose pattern occurs in the message;
\* and GENERAL when none occurs in either
C4_PathFirstTableOrdered ==
    passes = 1 =>
        LET table == CATEGORY_MAPPING(script)
            inPath == Earliest(table, file_path)
            inMessage == Earliest(table, log_context)
        IN  /\ \A k \in inPath : category = table[k][2]
            /\ inPath = {} => \A k \in inMessage : category = table[k][2]
            /\ (inPath = {} /\ inMessage = {}) => category = "GENERAL"

\* a path in which two entries' patterns occur, the earlier one deciding,
\* and a message in which the pattern of an entry of a third category occurs
C4_Witness ==
    /\ passes = 1
    /\ category = "BLUETOOTH"
    /\ OccursIn("btservice", file_path) /\ OccursIn("Audio", file_path)
    /\ OccursIn("Video", log_context)

-----------------------------------------------------------------------------
(* Properties of the repair scripts (SpecRepair) *)

\* C7: fix_logger_quotes turns a call LOG_X(CAT, ""text""); whose text has
\* no quote character into LOG_X(CAT, "text"); with one opening quote, one
\* closing quote and one terminator
C7_DoubledQuoteRepaired ==
    (passes = 1 /\ script = "fix_quotes") =>
        \A m \in Macros : \A body \in DoubledTexts :
            original_content = CallOf(m, "AUDIO", "\"\"" \o body \o "\"\"") \o "\n"
                => content = CallOf(m, "AUDIO", "\"" \o body \o "\"") \o "\n"

\* C8: a text made of calls in the target form only (the message a quoted
\* literal or a << chain, a chain that starts with "" included) is left as
\* it is by each of the scripts
C8_CanonicalUntouched ==
    (passes = 1 /\ original_content \in TextsOf(CallsOf(CanonicalMessages), MaxCalls)) =>
        content = original_content

-----------------------------------------------------------------------------
(* Properties of main (SpecMain) *)

\* C9: the files a --dry-run run reports as "Would migrate", and their
\* count, are the files a run without --dry-run on the same files reports
\* as migrated, and their count
C9_PreviewEqualsRealRun ==
    phase = "done" => would_migrate = migrated

-----------------------------------------------------------------------------
(* Properties of the call sites the migration finds (Spec) *)

\* whether position p of text lies inside a string literal: an odd number
\* of quote characters stands before it
InLiteral(text, p) == count(SubSeq(text, 1, p - 1), "\"") % 2 = 1

\* C11: the contents of string literals are not structure when the call
\* sites are located: no matched call starts inside a string literal, no
\* matched call ends at a ';' inside a string literal, and the argument
\* text of every matched call has its quotes and its parentheses balanced
C11_LiteralsNotStructural ==
    Ran =>
        \A k \in 1..Len(sites) :
            /\ ~InLiteral(searched, sites[k].first)
            /\ ~InLiteral(searched, sites[k].last)
            /\ count(sites[k].argument, "\"") % 2 = 0
            /\ count(sites[k].argument, "(") = count(sites[k].argument, ")")

=============================================================================
